---- MODULE Spec2Model ----
(***************************************************************************)
(* State-machine model of the stripe-rag-demo functions:                   *)
(*   - rag_poc_function/utils.py     (chunk_text, fetch_url,               *)
(*                                    prepare_documents, get_env, ...)     *)
(*   - rag_poc_function/main.py      (ingest_stripe_docs)                  *)
(*   - rag_poc_function/vectorstore.py (upsert_documents)                  *)
(*   - functions/embed-texts/main.py (embed)                               *)
(*                                                                         *)
(* Text is a sequence of character codes: 0 is a whitespace character,     *)
(* every positive code is a non-whitespace character.                      *)
(***************************************************************************)
EXTENDS Integers, Sequences, FiniteSets, TLC

VARIABLES
    \* ---- chunk_text call frame (utils.py:71-86)
    text,        \* argument `text`
    chunk_size,  \* argument `chunk_size`
    overlap,     \* argument `overlap`
    words,       \* local `words`
    chunks,      \* local `chunks`
    start,       \* local `start`
    step,        \* local `step`
    cpc,         \* position in chunk_text: "idle", "call", "loop", "done"
    \* ---- process environment of the ingestion function
    env_token,      \* INGEST_FUNCTION_TOKEN (Absent when unset)
    env_urls,       \* STRIPE_DOC_URLS (Absent when unset)
    env_chunk_size, \* CHUNK_SIZE, already an integer (Absent when unset)
    env_overlap,    \* CHUNK_OVERLAP, already an integer
    \* ---- ingest_stripe_docs invocation (main.py:51-188)
    hdr_token,      \* request header X-Ingest-Token (Absent when missing)
    ipc,            \* position in the handler
    urls,           \* local `urls`
    ui,             \* 1-based index in `urls` of the URL being processed
    attempt,        \* attempt number of the retrying fetch_url call
    parsed,         \* result of extract_text_from_html for the current URL
    all_documents,  \* local `all_documents`
    skipped_urls,   \* local `skipped_urls`
    exc,            \* last exception raised inside the try block (None if none)
    response,       \* response of the invocation (None while running)
    fetched,        \* indices of `urls` for which requests.get was called
    got404,         \* indices of `urls` whose fetch answered 404
    upsertCalls,    \* number of upsert_documents calls of this invocation
    store,          \* objects of class StripeDocPage, by object key
    replaced,       \* objects of this invocation written over a stored object
    runs,           \* invocations received so far
    \* ---- embedding proxy (functions/embed-texts/main.py)
    vertex_env,                 \* VERTEX_PROJECT_ID and VERTEX_LOCATION are set
    embed_token,                \* EMBED_FUNCTION_TOKEN (Absent when unset)
    vertex_client_initialized,  \* module global
    embedding_model,            \* module global: "None" or the model name
    ereq,                       \* the request: [token, body]
    epc,                        \* position in embed
    eresponse,                  \* response of embed (None while running)
    eexc,                       \* exception that left embed unhandled ("none" if none)
    modelCalls,                 \* get_embeddings calls of this invocation
    eruns                       \* requests received by the proxy so far

chunkVars == <<text, chunk_size, overlap, words, chunks, start, step, cpc>>
envVars == <<env_token, env_urls, env_chunk_size, env_overlap>>
ingestVars == <<hdr_token, ipc, urls, ui, attempt, parsed, all_documents,
                skipped_urls, exc, response, fetched, got404, upsertCalls,
                store, replaced, runs>>
embedVars == <<vertex_env, embed_token, vertex_client_initialized, embedding_model,
               ereq, epc, eresponse, eexc, modelCalls, eruns>>
vars == <<chunkVars, envVars, ingestVars, embedVars>>

---------------------------------------------------------------------------
(* Bounds of the model *)

\* longest small input text, in characters
MaxTextLen == 5
\* largest chunk_size / overlap tried on the small texts
MaxChunkSize == 3
MaxOverlap == 4
\* number of words of the long input text
LongTextWords == 2000
\* loop iterations after which a non-advancing chunk_text loop is cut off
MaxIter == 8
\* invocations of the ingestion function in one behaviour
MaxRuns == 2

(* Program constants *)
DefaultChunkSize == 800
DefaultOverlap == 120
\* stop_after_attempt(5)
MaxAttempts == 5
\* chunk[:100]
IdPrefixLen == 100

---------------------------------------------------------------------------
(* Python helpers *)

\* Python's None for structured values, and optional (possibly absent) values
None == [none |-> TRUE]
Absent == [set |-> FALSE]
Some(v) == [set |-> TRUE, val |-> v]

\* the vector store before any object is written
EmptyStore == [k \in {} |-> None]

Space == 0
Comma == 44
Min(a, b) == IF a < b THEN a ELSE b
Max(a, b) == IF a > b THEN a ELSE b

\* s[lo:hi] of Python for a sequence s, negative indices included
PySlice(s, lo, hi) ==
    LET n == Len(s)
        l == IF lo < 0 THEN Max(lo + n, 0) ELSE Min(lo, n)
        h == IF hi < 0 THEN Max(hi + n, 0) ELSE Min(hi, n)
    IN  SubSeq(s, l + 1, h)

\* str.split(): the maximal runs of non-whitespace characters, in order
Split(t) ==
    LET idx == [i \in 1..Len(t) |-> i]
        IsStart(i) == t[i] # Space /\ (i = 1 \/ t[i - 1] = Space)
        IsEnd(i) == t[i] # Space /\ (i = Len(t) \/ t[i + 1] = Space)
        starts == SelectSeq(idx, IsStart)
        ends == SelectSeq(idx, IsEnd)
    IN  [k \in 1..Len(starts) |-> SubSeq(t, starts[k], ends[k])]

\* " ".join(ws[lo..hi]), by halving
RECURSIVE JoinRange(_, _, _)
JoinRange(ws, lo, hi) ==
    IF lo > hi THEN <<>>
    ELSE IF lo = hi THEN ws[lo]
    ELSE LET mid == (lo + hi) \div 2
         IN  JoinRange(ws, lo, mid) \o <<Space>> \o JoinRange(ws, mid + 1, hi)

\* " ".join(ws)
Join(ws) == JoinRange(ws, 1, Len(ws))

normalize_whitespace(t) == Join(Split(t))

---------------------------------------------------------------------------
(* chunk_text *)

\* faulty variant of StepOf: the window advances by a whole chunk, no overlap
StepNoOverlap(cs, ov) == cs

\* faulty variant of StepOf: a guard that forces the step to be positive
StepGuarded(cs, ov) == Max(cs - ov, 1)

\* line 78: step = chunk_size - overlap
StepOf(cs, ov) == cs - ov

\* line 80: while start < len(words)
LoopCond(st, ws) == st < Len(ws)

\* small input texts: every character sequence up to MaxTextLen over {space, 1, 2}
SmallTexts == UNION {[1..n -> {Space, 1, 2}] : n \in 0..MaxTextLen}

\* a text of LongTextWords distinct one-character words separated by single spaces
LongText == [j \in 1..(2 * LongTextWords - 1) |-> IF j % 2 = 1 THEN (j + 1) \div 2 ELSE Space]

\* a request body: JSON or not, the kind of the JSON value, and for an object
\* its `texts` member: present or not, its type, its items when it is a list,
\* and whether Python takes it as true
Body(js, kind, present, type, items, truthy) ==
    [json |-> js, kind |-> kind,
     texts |-> [present |-> present, type |-> type, items |-> items, truthy |-> truthy]]

NoBody == Body(FALSE, "none", FALSE, "none", <<>>, FALSE)

\* the embedding proxy is not involved when the other functions are studied
EmbedIdle ==
    /\ vertex_env = FALSE
    /\ embed_token = Absent
    /\ vertex_client_initialized = FALSE
    /\ embedding_model = "None"
    /\ ereq = [token |-> Absent, body |-> NoBody]
    /\ epc = "off"
    /\ eresponse = None
    /\ eexc = "none"
    /\ modelCalls = 0
    /\ eruns = 0

\* the ingestion function is not involved when chunk_text is studied alone
IngestIdle ==
    /\ env_token = Absent /\ env_urls = Absent
    /\ env_chunk_size = Absent /\ env_overlap = 0
    /\ hdr_token = Absent
    /\ ipc = "off"
    /\ urls = <<>> /\ ui = 0 /\ attempt = 0
    /\ parsed = None
    /\ all_documents = <<>> /\ skipped_urls = <<>>
    /\ exc = None /\ response = None
    /\ fetched = {} /\ got404 = {}
    /\ upsertCalls = 0
    /\ store = EmptyStore
    /\ replaced = 0
    /\ runs = 0

ChunkFrameInit ==
    /\ cpc = "call"
    /\ words = <<>>
    /\ chunks = <<>>
    /\ start = 0
    /\ step = 0

\* chunk_text called on small texts, with small and with default parameters
ChunkInitSmall ==
    /\ ChunkFrameInit
    /\ text \in SmallTexts
    /\ \/ chunk_size \in 1..MaxChunkSize /\ overlap \in 0..MaxOverlap
       \/ chunk_size = DefaultChunkSize /\ overlap = DefaultOverlap
    /\ IngestIdle
    /\ EmbedIdle

\* ... and on the long text with the default parameters
ChunkInit ==
    \/ ChunkInitSmall
    \/ /\ ChunkFrameInit
       /\ text = LongText
       /\ chunk_size = DefaultChunkSize /\ overlap = DefaultOverlap
       /\ IngestIdle
    /\ EmbedIdle

\* lines 72-78: split, early return on no words, loop initialisation
ChunkEnter ==
    /\ cpc = "call"
    /\ words' = Split(text)
    /\ chunks' = <<>>
    /\ start' = 0
    /\ IF Len(Split(text)) = 0
       THEN cpc' = "done" /\ step' = 0
       ELSE cpc' = "loop" /\ step' = StepOf(chunk_size, overlap)
    /\ UNCHANGED <<text, chunk_size, overlap>>
    /\ UNCHANGED <<envVars, ingestVars, embedVars>>

\* lines 80-84: one iteration of the while loop
ChunkIter ==
    /\ cpc = "loop"
    /\ LoopCond(start, words)
    /\ Len(chunks) < MaxIter
    /\ LET end == Min(start + chunk_size, Len(words))
           chunk == Join(PySlice(words, start, end))
       IN  chunks' = Append(chunks, chunk)
    /\ start' = start + step
    /\ UNCHANGED <<text, chunk_size, overlap, words, step, cpc>>
    /\ UNCHANGED <<envVars, ingestVars, embedVars>>

\* lines 80, 86: loop exit and return
ChunkReturn ==
    /\ cpc = "loop"
    /\ ~LoopCond(start, words)
    /\ cpc' = "done"
    /\ UNCHANGED <<text, chunk_size, overlap, words, chunks, start, step>>
    /\ UNCHANGED <<envVars, ingestVars, embedVars>>

ChunkNext == ChunkEnter \/ ChunkIter \/ ChunkReturn

ChunkSpec == ChunkInit /\ [][ChunkNext]_vars

\* chunk_text runs to completion once called: the loop is sequential code
FairChunkSpec == ChunkInitSmall /\ [][ChunkNext]_vars /\ WF_vars(ChunkNext)

---------------------------------------------------------------------------
(* Exceptions: [type, status, cause_type, cause_status, msg] *)

Exc(t, st, ct, cst, m) ==
    [type |-> t, status |-> st, cause_type |-> ct, cause_status |-> cst, msg |-> m]

\* direct base class of each exception class that occurs
SuperOf(t) ==
    CASE t = "tenacity.RetryError" -> "Exception"
      [] t = "google.RetryError" -> "GoogleAPIError"
      [] t = "GoogleAPIError" -> "Exception"
      [] t = "HTTPError" -> "RequestException"
      [] t = "ConnectionError" -> "RequestException"
      [] t = "RequestException" -> "Exception"
      [] t = "RuntimeError" -> "Exception"
      [] t = "WeaviateError" -> "Exception"
      [] OTHER -> "BaseException"

\* isinstance(exception of class t, cls)
RECURSIVE IsInstance(_, _)
IsInstance(t, cls) ==
    IF t = cls THEN TRUE
    ELSE IF t = "BaseException" THEN FALSE
    ELSE IsInstance(SuperOf(t), cls)

\* the class the name RetryError is bound to in main.py
MainRetryError == "google.RetryError"

\* the exception tenacity raises when stop_after_attempt(5) is reached
TenacityRetryError(ct, cst) ==
    Exc("tenacity.RetryError", 0, ct, cst,
        IF ct = "HTTPError" THEN "RetryError[HTTPError]" ELSE "RetryError[ConnectionError]")

MissingEnv(name) ==
    Exc("RuntimeError", 0, "none", 0,
        IF name = "STRIPE_DOC_URLS"
        THEN "Missing required environment variable: STRIPE_DOC_URLS"
        ELSE "Missing required environment variable: CHUNK_SIZE")

---------------------------------------------------------------------------
(* utils.py: extract_text_from_html, fetch_url, prepare_documents *)

Untitled == <<85, 110>>

\* A page is the sequence of its h1/h2/h3/p elements in document order,
\* each [name, text].
Elem(n, t) == [name |-> n, text |-> t]

PageTitle(page) ==
    IF \E i \in 1..Len(page) : page[i].name = "h1"
    THEN LET i == CHOOSE i \in 1..Len(page) :
                    /\ page[i].name = "h1"
                    /\ \A j \in 1..(i - 1) : page[j].name # "h1"
         IN  normalize_whitespace(page[i].text)
    ELSE Untitled

\* the walk over article.descendants: the sections gathered from element i on
RECURSIVE WalkSections(_, _, _)
WalkSections(page, i, current_heading) ==
    IF i > Len(page) THEN <<>>
    ELSE IF page[i].name \in {"h1", "h2", "h3"}
         THEN WalkSections(page, i + 1, normalize_whitespace(page[i].text))
    ELSE IF page[i].name = "p" /\ normalize_whitespace(page[i].text) # <<>>
         THEN <<[heading |-> current_heading, text |-> normalize_whitespace(page[i].text)]>>
              \o WalkSections(page, i + 1, current_heading)
    ELSE WalkSections(page, i + 1, current_heading)

extract_text_from_html(page) ==
    LET title == PageTitle(page)
        sections == WalkSections(page, 1, title)
    IN  [title |-> title,
         paragraphs |-> [k \in 1..Len(sections) |-> sections[k].text],
         sections |-> sections]

\* what the origin server answers to one GET
Pages ==
    { <<Elem("h1", <<3>>), Elem("p", <<1, Space, 2, Space, 1>>)>>,
      <<Elem("p", <<Space, 1, Space>>), Elem("h2", <<4>>), Elem("p", <<Space>>),
        Elem("p", <<2>>)>> }

WebResponses ==
    {[kind |-> "http", status |-> 200, page |-> p] : p \in Pages}
    \cup {[kind |-> "http", status |-> 404, page |-> <<>>],
          [kind |-> "http", status |-> 500, page |-> <<>>],
          [kind |-> "conn_error", status |-> 0, page |-> <<>>]}

\* one attempt of fetch_url: returns None, returns the body, or raises
FetchOutcome(r) ==
    IF r.kind = "conn_error" THEN [kind |-> "raise", type |-> "ConnectionError", status |-> 0]
    ELSE IF r.status = 404 THEN [kind |-> "none", type |-> "none", status |-> 404]
    ELSE IF r.status >= 400 THEN [kind |-> "raise", type |-> "HTTPError", status |-> r.status]
    ELSE [kind |-> "text", type |-> "none", status |-> r.status]

\* chunk[:100]
Prefix(s, n) == SubSeq(s, 1, Min(n, Len(s)))

\* str(uuid5(NAMESPACE_URL, f"{url}-{idx}-{chunk[:100]}")): a function of the seed
DocId(url, idx, chunk) == <<url, idx, Prefix(chunk, IdPrefixLen)>>

\* the documents prepare_documents builds from one page's chunks
MakeDocs(url, p, cks) ==
    [i \in 1..Len(cks) |->
        LET idx == i - 1
        IN  [id |-> DocId(url, idx, cks[i]),
             title |-> p.title,
             url |-> url,
             content |-> cks[i],
             section |-> IF idx < Len(p.sections) THEN p.sections[idx + 1].heading
                         ELSE p.title,
             chunk_index |-> idx]]

---------------------------------------------------------------------------
(* vectorstore.py: upsert_documents *)

Embedding(content) == <<"text-embedding-004", content>>

StoredObject(doc) ==
    [title |-> doc.title, url |-> doc.url, content |-> doc.content,
     section |-> doc.section, chunk_index |-> doc.chunk_index,
     vector |-> Embedding(doc.content)]

\* faulty variant of StoreWrite: objects are added without uuid=, each under a fresh key
StoreWriteFreshKey(st, docs) ==
    LET n == Cardinality(DOMAIN st)
        fresh == {<<<<>>, n + i, <<>>>> : i \in 1..Len(docs)}
    IN  [k \in DOMAIN st \cup fresh |->
            IF k \in fresh THEN StoredObject(docs[k[2] - n]) ELSE st[k]]

\* the batch writes: each object is written under uuid=doc["id"]; an object
\* already stored under that key is replaced
StoreWrite(st, docs) ==
    LET newKeys == {docs[i].id : i \in 1..Len(docs)}
        Last(k) == CHOOSE i \in 1..Len(docs) :
                        /\ docs[i].id = k
                        /\ \A j \in (i + 1)..Len(docs) : docs[j].id # k
    IN  [k \in DOMAIN st \cup newKeys |->
            IF k \in newKeys THEN StoredObject(docs[Last(k)]) ELSE st[k]]

---------------------------------------------------------------------------
(* main.py: ingest_stripe_docs *)

UrlA == <<104>>
UrlB == <<105>>

\* str.split(sep)
RECURSIVE SplitOn(_, _)
SplitOn(s, sep) ==
    IF \A i \in 1..Len(s) : s[i] # sep THEN <<s>>
    ELSE LET i == CHOOSE i \in 1..Len(s) :
                    s[i] = sep /\ \A j \in 1..(i - 1) : s[j] # sep
         IN  <<SubSeq(s, 1, i - 1)>> \o SplitOn(SubSeq(s, i + 1, Len(s)), sep)

\* str.strip()
Strip(s) ==
    IF \A i \in 1..Len(s) : s[i] = Space THEN <<>>
    ELSE LET lo == CHOOSE i \in 1..Len(s) :
                     s[i] # Space /\ \A j \in 1..(i - 1) : s[j] = Space
             hi == CHOOSE i \in 1..Len(s) :
                     s[i] # Space /\ \A j \in (i + 1)..Len(s) : s[j] = Space
         IN  SubSeq(s, lo, hi)

\* line 69: [url.strip() for url in urls_csv.split(",") if url.strip()]
ParseUrls(csv) ==
    LET items == SplitOn(csv, Comma)
        stripped == [i \in 1..Len(items) |-> Strip(items[i])]
    IN  SelectSeq(stripped, LAMBDA u : u # <<>>)

\* faulty variant of Authorized: a request without the header is let through
AuthorizedMissingOk(hdr, expected) ==
    ~(expected.set /\ expected.val # "") \/ ~hdr.set \/ hdr = expected

\* lines 58-63: the request passes unless a non-empty token is configured
\* and the header differs from it
Authorized(hdr, expected) ==
    ~(expected.set /\ expected.val # "") \/ hdr = expected

\* faulty variant of InnerExcept: any retry exhaustion is absorbed as a skip
InnerExceptSkipAll(e) ==
    IF e.type = "tenacity.RetryError" THEN "skip" ELSE "raise"

\* lines 90-127: the except clauses around prepare_documents; "skip" records
\* a Skip Record and continues, "raise" propagates the exception
InnerExcept(e) ==
    IF IsInstance(e.type, MainRetryError)
    THEN \* _unwrap_retry_http_error: only tenacity's error has last_attempt
         IF e.type = "tenacity.RetryError" /\ IsInstance(e.cause_type, "HTTPError")
            /\ e.cause_status = 404
         THEN "skip" ELSE "raise"
    ELSE IF IsInstance(e.type, "HTTPError")
    THEN IF e.status = 404 THEN "skip" ELSE "raise"
    ELSE "raise"

\* line 48: the Skip Record
SkipRecord(url) == [url |-> url, status |-> "404"]

\* lines 166-188: the top-level except clauses
OuterExcept(e) ==
    IF IsInstance(e.type, MainRetryError)
    THEN [status |-> 500, body |-> [error |-> "RetryError", details |-> e.msg]]
    ELSE [status |-> 500, body |-> [error |-> e.msg]]

\* the configured environments
EnvTokens == {Absent, Some(""), Some("secret")}
HeaderTokens == {Absent, Some("secret"), Some("wrong")}
EnvUrlLists ==
    { Absent,
      Some(<<>>),
      Some(<<Space, Comma, Space>>),
      Some(UrlA),
      Some(<<Space>> \o UrlA \o <<Comma, Comma>> \o UrlB \o <<Space, Comma>> \o UrlA) }
EnvChunkSizes == {Absent, Some(1), Some(2)}
EnvOverlaps == {1}

IngestInit ==
    /\ env_token \in EnvTokens
    /\ env_urls \in EnvUrlLists
    /\ env_chunk_size \in EnvChunkSizes
    /\ env_overlap \in EnvOverlaps
    /\ hdr_token = Absent
    /\ ipc = "idle"
    /\ urls = <<>> /\ ui = 0 /\ attempt = 0
    /\ parsed = None
    /\ all_documents = <<>> /\ skipped_urls = <<>>
    /\ exc = None /\ response = None
    /\ fetched = {} /\ got404 = {}
    /\ upsertCalls = 0
    /\ store = EmptyStore
    /\ replaced = 0
    /\ runs = 0
    /\ text = <<>> /\ chunk_size = 0 /\ overlap = 0
    /\ words = <<>> /\ chunks = <<>> /\ start = 0 /\ step = 0
    /\ cpc = "idle"
    /\ EmbedIdle

\* a request arrives; the locals of the previous invocation are gone
Receive(h) ==
    /\ ipc \in {"idle", "responded"}
    /\ runs < MaxRuns
    /\ runs' = runs + 1
    /\ hdr_token' = h
    /\ ipc' = "auth"
    /\ urls' = <<>> /\ ui' = 0 /\ attempt' = 0
    /\ parsed' = None
    /\ all_documents' = <<>> /\ skipped_urls' = <<>>
    /\ exc' = None /\ response' = None
    /\ fetched' = {} /\ got404' = {}
    /\ upsertCalls' = 0
    /\ replaced' = 0
    /\ UNCHANGED <<store, envVars, chunkVars, embedVars>>

\* lines 57-80: authorization, configuration, URL list
AuthAndConfig ==
    /\ ipc = "auth"
    /\ IF ~Authorized(hdr_token, env_token)
       THEN /\ response' = [status |-> 401, body |-> [error |-> "Unauthorized"]]
            /\ ipc' = "responded"
            /\ UNCHANGED <<exc, urls, ui, attempt>>
       ELSE IF ~env_urls.set \/ env_urls.val = <<>>
       THEN /\ exc' = MissingEnv("STRIPE_DOC_URLS")
            /\ response' = OuterExcept(MissingEnv("STRIPE_DOC_URLS"))
            /\ ipc' = "responded"
            /\ UNCHANGED <<urls, ui, attempt>>
       ELSE IF ~env_chunk_size.set
       THEN /\ exc' = MissingEnv("CHUNK_SIZE")
            /\ response' = OuterExcept(MissingEnv("CHUNK_SIZE"))
            /\ ipc' = "responded"
            /\ UNCHANGED <<urls, ui, attempt>>
       ELSE IF ParseUrls(env_urls.val) = <<>>
       THEN /\ response' = [status |-> 400, body |-> [error |-> "No URLs provided"]]
            /\ ipc' = "responded"
            /\ UNCHANGED <<exc, urls, ui, attempt>>
       ELSE /\ urls' = ParseUrls(env_urls.val)
            /\ ui' = 1
            /\ attempt' = 1
            /\ ipc' = "fetch"
            /\ UNCHANGED <<exc, response>>
    /\ UNCHANGED <<hdr_token, parsed, all_documents, skipped_urls, fetched, got404,
                   upsertCalls, store, replaced, runs, envVars, chunkVars,
                   embedVars>>

\* line 82: the for loop moves to the next URL, or ends
NextUrl ==
    IF ui < Len(urls)
    THEN ui' = ui + 1 /\ attempt' = 1 /\ ipc' = "fetch"
    ELSE ui' = ui /\ attempt' = 0 /\ ipc' = "finish"

\* utils.py:89-101 and 104-111, main.py:84-127: one attempt of fetch_url for
\* urls[ui], and what prepare_documents and the loop body do with its outcome
FetchAttempt(r) ==
    /\ ipc = "fetch"
    /\ fetched' = fetched \cup {ui}
    /\ LET o == FetchOutcome(r)
           e == TenacityRetryError(o.type, o.status)
       IN  CASE o.kind = "none" ->
                \* fetch_url returns None; prepare_documents returns []
                /\ got404' = got404 \cup {ui}
                /\ NextUrl
                /\ UNCHANGED <<parsed, skipped_urls, exc, response, chunkVars>>
             [] o.kind = "text" ->
                \* extract, join the paragraphs, call chunk_text
                /\ parsed' = extract_text_from_html(r.page)
                /\ text' = Join(extract_text_from_html(r.page).paragraphs)
                /\ chunk_size' = env_chunk_size.val
                /\ overlap' = env_overlap
                /\ cpc' = "call"
                /\ ipc' = "chunk"
                /\ UNCHANGED <<ui, attempt, got404, skipped_urls, exc, response,
                               words, chunks, start, step>>
             [] o.kind = "raise" /\ attempt < MaxAttempts ->
                \* tenacity retries
                /\ attempt' = attempt + 1
                /\ UNCHANGED <<ipc, ui, parsed, got404, skipped_urls, exc, response,
                               chunkVars>>
             [] o.kind = "raise" /\ attempt >= MaxAttempts ->
                \* tenacity gives up and raises its RetryError
                IF InnerExcept(e) = "skip"
                THEN /\ exc' = e
                     /\ skipped_urls' = Append(skipped_urls, SkipRecord(urls[ui]))
                     /\ NextUrl
                     /\ UNCHANGED <<parsed, got404, response, chunkVars>>
                ELSE /\ exc' = e
                     /\ response' = OuterExcept(e)
                     /\ ipc' = "responded"
                     /\ UNCHANGED <<ui, attempt, parsed, got404, skipped_urls,
                                    chunkVars>>
    /\ UNCHANGED <<hdr_token, urls, all_documents, upsertCalls, store, replaced, runs,
                   envVars, embedVars>>

\* utils.py:118-132, main.py:85: chunk_text has returned; the documents of
\* urls[ui] are assembled and added to all_documents
Assemble ==
    /\ ipc = "chunk"
    /\ cpc = "done"
    /\ all_documents' = all_documents \o MakeDocs(urls[ui], parsed, chunks)
    /\ parsed' = None
    /\ text' = <<>> /\ chunk_size' = 0 /\ overlap' = 0
    /\ words' = <<>> /\ chunks' = <<>> /\ start' = 0 /\ step' = 0
    /\ cpc' = "idle"
    /\ NextUrl
    /\ UNCHANGED <<hdr_token, urls, skipped_urls, exc, response, fetched, got404,
                   upsertCalls, store, replaced, runs, envVars, embedVars>>

\* the number of documents written under a key that held an object already
Replaced(st, docs) ==
    Cardinality({i \in 1..Len(docs) :
                    \/ docs[i].id \in DOMAIN st
                    \/ \E j \in 1..(i - 1) : docs[j].id = docs[i].id})

\* how a call of upsert_documents with documents can end: it returns after
\* writing them all, the embedding call fails before anything is written, or
\* the vector store fails after n objects were written
UpsertOutcomes(docs) ==
    {[kind |-> "ok", written |-> Len(docs)],
     [kind |-> "google.RetryError", written |-> 0]}
    \cup {[kind |-> "WeaviateError", written |-> n] : n \in 0..Len(docs)}

UpsertError(kind) ==
    Exc(kind, 0, "none", 0,
        IF kind = "google.RetryError" THEN "Deadline exceeded" ELSE "Weaviate error")

\* main.py:129-164 and vectorstore.py:74-98: the all-skipped answer, or the
\* upsert and the final answer
Finish(out) ==
    /\ ipc = "finish"
    /\ ipc' = "responded"
    /\ IF all_documents = <<>> /\ skipped_urls # <<>>
       THEN /\ response' = [status |-> 207,
                            body |-> [status |-> "skipped", ingested |-> 0,
                                      skipped |-> skipped_urls]]
            /\ UNCHANGED <<exc, upsertCalls, store, replaced>>
       ELSE /\ upsertCalls' = upsertCalls + 1
            /\ IF all_documents = <<>> \/ out.kind = "ok"
               THEN /\ store' = StoreWrite(store, all_documents)
                    /\ replaced' = Replaced(store, all_documents)
                    /\ response' = [status |-> 200,
                                    body |-> [status |-> "ok",
                                              ingested |-> Len(all_documents),
                                              skipped |-> skipped_urls]]
                    /\ UNCHANGED exc
               ELSE /\ store' = StoreWrite(store, SubSeq(all_documents, 1, out.written))
                    /\ replaced' = Replaced(store, SubSeq(all_documents, 1, out.written))
                    /\ exc' = UpsertError(out.kind)
                    /\ response' = OuterExcept(UpsertError(out.kind))
    /\ UNCHANGED <<hdr_token, urls, ui, attempt, parsed, all_documents, skipped_urls,
                   fetched, got404, runs, envVars, chunkVars, embedVars>>

IngestNext ==
    \/ \E h \in HeaderTokens : Receive(h)
    \/ AuthAndConfig
    \/ \E r \in WebResponses : FetchAttempt(r)
    \/ ChunkEnter
    \/ ChunkIter
    \/ ChunkReturn
    \/ Assemble
    \/ \E out \in UpsertOutcomes(all_documents) : Finish(out)

IngestSpec == IngestInit /\ [][IngestNext]_vars

---------------------------------------------------------------------------
(* functions/embed-texts/main.py: embed *)

ModelName == "text-embedding-004"

TwoTexts == <<<<1>>, <<2>>>>

\* the request bodies tried
Bodies ==
    { Body(FALSE, "none", FALSE, "none", <<>>, FALSE),          \* not JSON
      Body(TRUE, "object", FALSE, "none", <<>>, FALSE),         \* {}
      Body(TRUE, "object", TRUE, "null", <<>>, FALSE),          \* {"texts": null}
      Body(TRUE, "object", TRUE, "list", <<>>, FALSE),          \* {"texts": []}
      Body(TRUE, "object", TRUE, "list", TwoTexts, TRUE),       \* {"texts": ["a", "b"]}
      Body(TRUE, "object", TRUE, "string", <<>>, TRUE),         \* {"texts": "not-a-list"}
      Body(TRUE, "object", TRUE, "string", <<>>, FALSE),        \* {"texts": ""}
      Body(TRUE, "object", TRUE, "number", <<>>, TRUE),         \* {"texts": 5}
      Body(TRUE, "object", TRUE, "dict", <<>>, TRUE),           \* {"texts": {"a": 1}}
      Body(TRUE, "array", FALSE, "none", <<>>, FALSE),          \* ["a", "b"]
      Body(TRUE, "string", FALSE, "none", <<>>, FALSE),         \* "a"
      Body(TRUE, "number", FALSE, "none", <<>>, FALSE),         \* 5
      Body(TRUE, "null", FALSE, "none", <<>>, FALSE) }          \* null

EmbedTokens == {Absent, Some(""), Some("secret")}
EmbedHeaders == {Absent, Some("secret"), Some("wrong")}

\* lines 32-35: the request passes unless a non-empty token is configured and
\* the header differs from it
EmbedAuthorized(tok, expected) ==
    ~((expected.set /\ expected.val # "") /\ tok # expected)

\* line 42: payload.get("texts"): only a JSON object (a dict) has .get
HasGet(body) == body.kind = "object"

\* line 43: not texts or not isinstance(texts, list)
TextsRejected(t) == ~(t.present /\ t.truthy) \/ t.type # "list"

EmbedInit ==
    /\ vertex_env \in BOOLEAN
    /\ embed_token \in EmbedTokens
    /\ vertex_client_initialized = FALSE
    /\ embedding_model = "None"
    /\ ereq = [token |-> Absent, body |-> NoBody]
    /\ epc = "idle"
    /\ eresponse = None
    /\ eexc = "none"
    /\ modelCalls = 0
    /\ eruns = 0
    /\ ChunkFrameInit /\ text = <<>> /\ chunk_size = 0 /\ overlap = 0
    /\ IngestIdle

\* a request arrives at the proxy
EmbedReceive(tok, body) ==
    /\ epc \in {"idle", "responded"}
    /\ eruns < MaxRuns
    /\ eruns' = eruns + 1
    /\ ereq' = [token |-> tok, body |-> body]
    /\ epc' = "init"
    /\ eresponse' = None
    /\ eexc' = "none"
    /\ modelCalls' = 0
    /\ UNCHANGED <<vertex_env, embed_token, vertex_client_initialized, embedding_model>>
    /\ UNCHANGED <<chunkVars, envVars, ingestVars>>

\* lines 14-26, 30: init_vertex_client, once per process; os.environ[...]
\* raises KeyError when the configuration is missing
EmbedInitClient ==
    /\ epc = "init"
    /\ IF vertex_client_initialized
       THEN /\ epc' = "handle"
            /\ UNCHANGED <<vertex_client_initialized, embedding_model, eresponse, eexc>>
       ELSE IF ~vertex_env
       THEN /\ eexc' = "KeyError"
            /\ eresponse' = [status |-> 500, body |-> [error |-> "Internal Server Error"]]
            /\ epc' = "responded"
            /\ UNCHANGED <<vertex_client_initialized, embedding_model>>
       ELSE /\ vertex_client_initialized' = TRUE
            /\ embedding_model' = ModelName
            /\ epc' = "handle"
            /\ UNCHANGED <<eresponse, eexc>>
    /\ UNCHANGED <<vertex_env, embed_token, ereq, modelCalls, eruns>>
    /\ UNCHANGED <<chunkVars, envVars, ingestVars>>

\* lines 32-44: authorization, JSON parsing, validation of `texts`
EmbedHandle ==
    /\ epc = "handle"
    /\ IF ~EmbedAuthorized(ereq.token, embed_token)
       THEN /\ eresponse' = [status |-> 401, body |-> [error |-> "Unauthorized"]]
            /\ epc' = "responded"
            /\ UNCHANGED eexc
       ELSE IF ~ereq.body.json
       THEN /\ eresponse' = [status |-> 400, body |-> [error |-> "Invalid JSON payload"]]
            /\ epc' = "responded"
            /\ UNCHANGED eexc
       ELSE IF ~HasGet(ereq.body)
       THEN /\ eexc' = "AttributeError"
            /\ eresponse' = [status |-> 500, body |-> [error |-> "Internal Server Error"]]
            /\ epc' = "responded"
       ELSE IF TextsRejected(ereq.body.texts)
       THEN /\ eresponse' = [status |-> 400, body |-> [error |-> "Missing 'texts' array"]]
            /\ epc' = "responded"
            /\ UNCHANGED eexc
       ELSE /\ epc' = "call"
            /\ UNCHANGED <<eresponse, eexc>>
    /\ UNCHANGED <<vertex_env, embed_token, vertex_client_initialized, embedding_model,
                   ereq, modelCalls, eruns>>
    /\ UNCHANGED <<chunkVars, envVars, ingestVars>>

\* lines 46-49: the embedding call, which answers or fails, and the response
EmbedCall(ok) ==
    /\ epc = "call"
    /\ modelCalls' = modelCalls + 1
    /\ epc' = "responded"
    /\ IF ok
       THEN /\ eresponse' = [status |-> 200,
                             body |-> [embeddings |->
                                 [i \in 1..Len(ereq.body.texts.items) |->
                                     Embedding(ereq.body.texts.items[i])]]]
            /\ UNCHANGED eexc
       ELSE /\ eexc' = "GoogleAPIError"
            /\ eresponse' = [status |-> 500, body |-> [error |-> "Internal Server Error"]]
    /\ UNCHANGED <<vertex_env, embed_token, vertex_client_initialized, embedding_model,
                   ereq, eruns>>
    /\ UNCHANGED <<chunkVars, envVars, ingestVars>>

EmbedNext ==
    \/ \E tok \in EmbedHeaders, body \in Bodies : EmbedReceive(tok, body)
    \/ EmbedInitClient
    \/ EmbedHandle
    \/ \E ok \in BOOLEAN : EmbedCall(ok)

EmbedSpec == EmbedInit /\ [][EmbedNext]_vars

---------------------------------------------------------------------------
(* Claims about chunk_text, checked under ChunkSpec / FairChunkSpec *)

CeilDiv(a, b) == IF a % b = 0 THEN a \div b ELSE (a \div b) + 1

\* the set of elements of a sequence
Range(s) == {s[i] : i \in 1..Len(s)}

\* C7 (as claimed): for 0 <= overlap < chunk_size and a text of fewer than
\* chunk_size words, chunk_text returns exactly one chunk equal to the
\* whitespace-normalized input, and an empty list for a text without words.
C7_ShortTextOneChunk ==
    (cpc = "done" /\ 0 <= overlap /\ overlap < chunk_size
        /\ Len(Split(text)) < chunk_size)
    => IF Len(Split(text)) = 0
       THEN chunks = <<>>
       ELSE chunks = <<normalize_whitespace(text)>>

\* C8: with chunk_size=800 and overlap=120, a text of LongTextWords (2000)
\* words gives ceil((2000 - 800) / 680) + 1 = 3 chunks, and every chunk after
\* the first begins with exactly the last 120 words of its predecessor.
C8_LongTextChunks ==
    (cpc = "done" /\ chunk_size = DefaultChunkSize /\ overlap = DefaultOverlap
        /\ Len(Split(text)) = LongTextWords)
    => /\ Len(chunks) = CeilDiv(LongTextWords - chunk_size, chunk_size - overlap) + 1
       /\ Len(chunks) = 3
       /\ \A k \in 2..Len(chunks) :
            LET prev == Split(chunks[k - 1])
                cur == Split(chunks[k])
            IN  /\ Len(prev) >= overlap
                /\ Len(cur) >= overlap
                /\ SubSeq(cur, 1, overlap) = SubSeq(prev, Len(prev) - overlap + 1, Len(prev))
                /\ \A j \in (overlap + 1)..Len(cur) : cur[j] \notin Range(prev)

C8_Witness ==
    /\ cpc = "done"
    /\ chunk_size = DefaultChunkSize /\ overlap = DefaultOverlap
    /\ Len(words) = LongTextWords
    /\ Len(chunks) = 3

\* C10: chunk_text terminates whenever overlap < chunk_size (the step is
\* positive and start strictly increases); for a text with at least one word
\* and overlap >= chunk_size the step is non-positive, start never reaches
\* the word count and the call never returns.
C10_Termination ==
    /\ (overlap < chunk_size) ~> (cpc = "done")
    /\ [](overlap < chunk_size /\ cpc = "loop" => step > 0)
    /\ [][chunks' # chunks =>
            IF overlap < chunk_size THEN start' > start ELSE start' <= start]_vars
    /\ []((overlap >= chunk_size /\ Len(Split(text)) > 0)
            => /\ cpc # "done"
               /\ (cpc = "loop" => step <= 0 /\ start < Len(words)))

C10_Witness ==
    /\ cpc = "loop"
    /\ overlap >= chunk_size
    /\ Len(chunks) = MaxIter
    /\ LoopCond(start, words)

---------------------------------------------------------------------------
(* Claims about ingest_stripe_docs, checked under IngestSpec *)

\* a non-empty INGEST_FUNCTION_TOKEN is configured
TokenSet == env_token.set /\ env_token.val # ""

\* the invocation has gone past the authorization check
PastAuth == ipc \in {"fetch", "chunk", "finish"}

\* C1 (as claimed): every URL whose fetch answered 404 has exactly one Skip
\* Record {"url": url, "status": "404"} in skipped_urls, the loop goes on, and
\* the final response's skipped list holds one record per 404 URL.
C1_SkipRecordPer404 ==
    /\ (PastAuth =>
          /\ Len(skipped_urls) = Cardinality(got404)
          /\ \A i \in got404 :
                \E k \in 1..Len(skipped_urls) : skipped_urls[k] = SkipRecord(urls[i]))
    /\ (ipc = "responded" /\ response.status \in {200, 207} =>
          Len(response.body.skipped) = Cardinality(got404))

\* C2 (as claimed): when every configured URL answers 404 the response is
\* HTTP 207 with status "skipped", ingested 0 and one skip record per URL,
\* and upsert_documents is not invoked.
C2_AllSkipped207 ==
    (ipc = "responded" /\ urls # <<>> /\ got404 = 1..Len(urls)) =>
        /\ response.status = 207
        /\ response.body.status = "skipped"
        /\ response.body.ingested = 0
        /\ Len(response.body.skipped) = Len(urls)
        /\ upsertCalls = 0

\* C3: when the preparation of a URL fails for a reason other than 404 (the
\* retries of fetch_url are exhausted), the run aborts at that URL: no later
\* URL is fetched, upsert_documents is not invoked, and the response is HTTP
\* 500 with an "error" key and no partial result.
C3_AbortOnFailure ==
    (exc # None /\ exc.type = "tenacity.RetryError") =>
        /\ ipc = "responded"
        /\ fetched = 1..ui
        /\ upsertCalls = 0
        /\ response.status = 500
        /\ "error" \in DOMAIN response.body
        /\ DOMAIN response.body \cap {"status", "ingested", "skipped"} = {}

C3_Witness ==
    /\ ipc = "responded"
    /\ exc # None /\ exc.type = "tenacity.RetryError"
    /\ ui = 2 /\ Len(urls) = 3
    /\ all_documents # <<>>
    /\ response.status = 500

\* C4 (as claimed): when fetch_url exhausts its 5 attempts with a cause other
\* than a 404 response, the response is HTTP 500 with body
\* {"error": "RetryError", "details": <message>}.
C4_RetryErrorBody ==
    (ipc = "responded" /\ exc # None /\ exc.type = "tenacity.RetryError"
        /\ ~(exc.cause_type = "HTTPError" /\ exc.cause_status = 404))
    => response = [status |-> 500,
                   body |-> [error |-> "RetryError", details |-> exc.msg]]

\* C5: with a non-empty INGEST_FUNCTION_TOKEN, a request whose X-Ingest-Token
\* is missing or different gets 401 {"error": "Unauthorized"}, nothing is
\* fetched and no upsert is invoked; a request with the matching token, and
\* any request when no token is configured, is not answered 401.
C5_AuthGate ==
    /\ (TokenSet /\ hdr_token # env_token /\ ipc # "auth" /\ runs > 0) =>
          /\ ipc = "responded"
          /\ response.status = 401
          /\ response.body = [error |-> "Unauthorized"]
          /\ fetched = {}
          /\ upsertCalls = 0
    /\ (ipc = "responded" /\ (~TokenSet \/ hdr_token = env_token)) =>
          response.status # 401

C5_Witness ==
    /\ ipc = "responded"
    /\ TokenSet
    /\ hdr_token = Some("wrong")
    /\ response.status = 401

\* an object with the document's url, chunk_index and content is stored
Stored(d, st) ==
    \E k \in DOMAIN st :
        /\ st[k].url = d.url
        /\ st[k].chunk_index = d.chunk_index
        /\ st[k].content = d.content

\* C9: re-ingestion is idempotent: an upsert adds an object key only for a
\* document whose (url, chunk_index, content) is not stored yet, so a run over
\* unchanged content adds no key to the vector store.
C9_IdempotentReingest ==
    [][(ipc = "finish" /\ ipc' = "responded") =>
        /\ \A k \in (DOMAIN store') \ (DOMAIN store) :
              \E i \in 1..Len(all_documents) :
                  all_documents[i].id = k /\ ~Stored(all_documents[i], store)
        /\ ((\A i \in 1..Len(all_documents) : Stored(all_documents[i], store))
              => DOMAIN store' = DOMAIN store)]_vars

C9_Witness ==
    /\ ipc = "responded"
    /\ runs = 2
    /\ response.status = 200
    /\ Len(all_documents) = 3
    /\ replaced = 3
    /\ Cardinality(DOMAIN store) = 3

---------------------------------------------------------------------------
(* Claims about embed, checked under EmbedSpec *)

\* C6 (as claimed): for an authorized request, a body that is not JSON gets
\* 400 "Invalid JSON payload"; a JSON body in which `texts` is absent, not a
\* list or empty gets 400 "Missing 'texts' array"; in both cases the model is
\* not called and no failure is left unhandled.
C6_ValidationAnswers ==
    (epc = "responded" /\ vertex_client_initialized
        /\ EmbedAuthorized(ereq.token, embed_token))
    => /\ (~ereq.body.json =>
             /\ eresponse = [status |-> 400, body |-> [error |-> "Invalid JSON payload"]]
             /\ modelCalls = 0
             /\ eexc = "none")
       /\ ((ereq.body.json
              /\ (~ereq.body.texts.present \/ ereq.body.texts.type # "list"
                    \/ ereq.body.texts.items = <<>>)) =>
             /\ eresponse = [status |-> 400, body |-> [error |-> "Missing 'texts' array"]]
             /\ modelCalls = 0
             /\ eexc = "none")

====
